---- MODULE Spec2Model ----
(***************************************************************************)
(* A model of the ELF header parser of avrvm (src/src/elfparser.rs):       *)
(* the field decoders, the endian-aware scalar reader and the statement by *)
(* statement control flow of read_elf_header.                              *)
(*                                                                         *)
(* Three specifications share the variables:                               *)
(*   Spec        one call of read_elf_header on a file                     *)
(*   SpecDecode  one call of a field decoder on a raw value                *)
(*   SpecScalar  one call of read_u8/read_u16/read_u32 on a reader         *)
(***************************************************************************)
EXTENDS Integers, Sequences, FiniteSets, TLC

VARIABLES
    exists,     \* whether File::open finds the file
    stream,     \* the bytes of the file
    pos,        \* bytes the parser has taken from the BufReader so far
    id,         \* the local array id: [u8; 16]
    h,          \* the local ElfHeader h
    elfreader,  \* the endianness the ElfReader was built with, or "Unbound"
    pc,         \* the statement of read_elf_header that runs next
    result,     \* what the call gave its caller
    decoded,    \* history: the fields assigned into h so far, in order
    failedAt,   \* history: the field whose try! returned the error
    raw,        \* SpecDecode: the argument of the decoder
    fn,         \* SpecDecode, SpecScalar: the function that was applied
    out         \* SpecDecode, SpecScalar: what it returned

vars == <<exists, stream, pos, id, h, elfreader, pc, result, decoded, failedAt,
          raw, fn, out>>

(***************************************************************************)
(* Bounds of the model.                                                    *)
(***************************************************************************)
\* The longest file: 32 header bytes and MaxLen - 32 bytes after them.
MaxLen == 34
\* SpecScalar draws bytes from 0..MaxSmallByte and a few large values.
MaxSmallByte == 2

(***************************************************************************)
(* Widths of the integer types.                                            *)
(***************************************************************************)
U8Max == 255
U16Max == 65535
IdentSize == 16

Pow2(n) == 2 ^ n

\* Rust's | on unsigned integers of at most 16 bits.
RECURSIVE BitOr(_, _)
BitOr(a, b) ==
    IF a = 0 THEN b
    ELSE IF b = 0 THEN a
    ELSE (IF a % 2 = 1 \/ b % 2 = 1 THEN 1 ELSE 0) + 2 * BitOr(a \div 2, b \div 2)

\* Rust's << on a u16 (bits shifted out are lost).
Shl16(x, n) == (x * Pow2(n)) % Pow2(16)

\* A u32 is kept as its two 16-bit halves <<high, low>>: TLC's integers
\* end at 2^31 - 1.
\* x as u32, for a u8 or u16 x.
as_u32(x) == <<0, x>>

\* Rust's | on u32.
BitOr32(a, b) == <<BitOr(a[1], b[1]), BitOr(a[2], b[2])>>

\* Rust's << on a u32, for 0 <= n < 32 (bits shifted out are lost).
Shl32(v, n) ==
    IF n >= 16
    THEN <<(v[2] * Pow2(n - 16)) % Pow2(16), 0>>
    ELSE <<(((v[1] * Pow2(n)) % Pow2(16)) + ((v[2] * Pow2(n)) \div Pow2(16))) % Pow2(16),
           (v[2] * Pow2(n)) % Pow2(16)>>

(***************************************************************************)
(* std::io::Result.                                                        *)
(***************************************************************************)
Ok(v) == [ok |-> TRUE, val |-> v, err |-> "none"]
Err(e) == [ok |-> FALSE, val |-> 0, err |-> e]

\* The errors the code makes: Error::new(ErrorKind::Other, msg) by its
\* message, and read_exact's ErrorKind::UnexpectedEof.
ErrClass == "Unrecognized ElfClass"
ErrEndianness == "Unrecognized ElfEndianness"
ErrVersion == "Unrecognized ElfVersion"
ErrFileType == "Unrecognized ElfFileType"
ErrUnknownEndianness == "Cannot proceed with unknown ElfEndianness"
ErrUnexpectedEof == "UnexpectedEof"

(***************************************************************************)
(* The field decoders.  An enum value is a tuple: its variant's name, then *)
(* the payload if the variant carries one.                                 *)
(***************************************************************************)
get_elf_class(byte) ==
    CASE byte = 0 -> Ok(<<"NoClass">>)
      [] byte = 1 -> Ok(<<"Bit32">>)
      [] byte = 2 -> Ok(<<"Bit64">>)
      [] OTHER -> Err(ErrClass)

get_elf_endianness(byte) ==
    CASE byte = 0 -> Ok("Unknown")
      [] byte = 1 -> Ok("Little")
      [] byte = 2 -> Ok("Big")
      [] OTHER -> Err(ErrEndianness)

get_elf_ident_version(byte) ==
    CASE byte = 0 -> Ok(<<"Invalid">>)
      [] byte = 1 -> Ok(<<"Current">>)
      [] OTHER -> Err(ErrVersion)

\* A slip: the range's upper end left out.
FileTypeRangeMutant(data) == 65280 <= data /\ data < 65535
\* The pattern 0xff00 ... 0xffff (both ends included).
FileTypeRange(data) == 65280 <= data /\ data <= 65535

get_elf_filetype(data) ==
    CASE data = 0 -> Ok(<<"Unknown">>)
      [] data = 1 -> Ok(<<"Relocatable">>)
      [] data = 2 -> Ok(<<"Executable">>)
      [] data = 3 -> Ok(<<"SharedObject">>)
      [] data = 4 -> Ok(<<"Core">>)
      [] FileTypeRange(data) -> Ok(<<"ProcessorSpecific", data>>)
      [] OTHER -> Err(ErrFileType)

\* A slip: the unknown code cut to a byte.
get_elf_machine_mutant(data) ==
    CASE data = 0 -> Ok(<<"NoMachine">>)
      [] data = 1 -> Ok(<<"M32">>)
      [] data = 2 -> Ok(<<"SPARC">>)
      [] data = 3 -> Ok(<<"I386">>)
      [] data = 4 -> Ok(<<"M68K">>)
      [] data = 5 -> Ok(<<"M88K">>)
      [] data = 6 -> Ok(<<"I860">>)
      [] data = 7 -> Ok(<<"MIPS">>)
      [] OTHER -> Ok(<<"Processor", data % 256>>)
get_elf_machine(data) ==
    CASE data = 0 -> Ok(<<"NoMachine">>)
      [] data = 1 -> Ok(<<"M32">>)
      [] data = 2 -> Ok(<<"SPARC">>)
      [] data = 3 -> Ok(<<"I386">>)
      [] data = 4 -> Ok(<<"M68K">>)
      [] data = 5 -> Ok(<<"M88K">>)
      [] data = 6 -> Ok(<<"I860">>)
      [] data = 7 -> Ok(<<"MIPS">>)
      [] OTHER -> Ok(<<"Processor", data>>)

get_elf_version(data) ==
    CASE data = <<0, 0>> -> Ok(<<"Invalid">>)
      [] data = <<0, 1>> -> Ok(<<"Current">>)
      [] OTHER -> Err(ErrVersion)

\* Result::and_then with one of the decoders, named, as its closure.
and_then(r, decoder) ==
    IF ~r.ok THEN r
    ELSE CASE decoder = "get_elf_filetype" -> get_elf_filetype(r.val)
           [] decoder = "get_elf_machine" -> get_elf_machine(r.val)
           [] decoder = "get_elf_version" -> get_elf_version(r.val)

(***************************************************************************)
(* The byte source.  BufReader<File> hands the file's bytes out in order;  *)
(* a regular file is read without transport errors.                        *)
(***************************************************************************)
Remaining(data, p) == Len(data) - p

Min(a, b) == IF a <= b THEN a ELSE b

\* Read::read into a buffer of n bytes (line 207): it copies what is there,
\* at most n bytes, and reports the count; a short count is no error.
read(data, p, buf) ==
    LET n == Min(Len(buf), Remaining(data, p))
    IN  [res |-> Ok(n),
         buf |-> [i \in 1..Len(buf) |-> IF i <= n THEN data[p + i] ELSE buf[i]],
         pos |-> p + n]

\* A slip: read_exact behaving as read, a short source zero-filled.
read_exact_mutant(data, p, n) ==
    LET k == Min(n, Remaining(data, p))
    IN  [res |-> Ok([i \in 1..n |-> IF i <= k THEN data[p + i] ELSE 0]),
         pos |-> p + k]
\* Read::read_exact of n bytes: all n, or UnexpectedEof once the source is
\* drained.
read_exact(data, p, n) ==
    IF Remaining(data, p) >= n
    THEN [res |-> Ok(SubSeq(data, p + 1, p + n)), pos |-> p + n]
    ELSE [res |-> Err(ErrUnexpectedEof), pos |-> Len(data)]

(***************************************************************************)
(* impl EndianAwareReader for ElfReader.  buf[i] of the code is buf[i+1].  *)
(***************************************************************************)
read_u8(data, p, endianness) ==
    LET r == read_exact(data, p, 1)
    IN  [res |-> IF r.res.ok THEN Ok(r.res.val[1]) ELSE r.res, pos |-> r.pos]

\* A slip: Little combined as Big.
combine_u16_mutant(buf, endianness) ==
    CASE endianness = "Unknown" -> Err(ErrUnknownEndianness)
      [] endianness = "Little" -> Ok(BitOr(Shl16(buf[1], 8), buf[2]))
      [] endianness = "Big" -> Ok(BitOr(Shl16(buf[1], 8), buf[2]))
\* The match of read_u16 on self.endianness.
combine_u16(buf, endianness) ==
    CASE endianness = "Unknown" -> Err(ErrUnknownEndianness)
      [] endianness = "Little" -> Ok(BitOr(Shl16(buf[2], 8), buf[1]))
      [] endianness = "Big" -> Ok(BitOr(Shl16(buf[1], 8), buf[2]))

read_u16(data, p, endianness) ==
    LET r == read_exact(data, p, 2)
    IN  [res |-> IF r.res.ok THEN combine_u16(r.res.val, endianness) ELSE r.res,
         pos |-> r.pos]

\* A slip: the two middle bytes of Little swapped.
combine_u32_mutant(buf, endianness) ==
    CASE endianness = "Unknown" -> Err(ErrUnknownEndianness)
      [] endianness = "Little" ->
            Ok(BitOr32(BitOr32(BitOr32(Shl32(as_u32(buf[4]), 24), Shl32(as_u32(buf[2]), 16)),
                               Shl32(as_u32(buf[3]), 8)), as_u32(buf[1])))
      [] endianness = "Big" ->
            Ok(BitOr32(BitOr32(BitOr32(Shl32(as_u32(buf[1]), 24), Shl32(as_u32(buf[2]), 16)),
                               Shl32(as_u32(buf[3]), 8)), as_u32(buf[4])))
\* The match of read_u32 on self.endianness.
combine_u32(buf, endianness) ==
    CASE endianness = "Unknown" -> Err(ErrUnknownEndianness)
      [] endianness = "Little" ->
            Ok(BitOr32(BitOr32(BitOr32(Shl32(as_u32(buf[4]), 24), Shl32(as_u32(buf[3]), 16)),
                               Shl32(as_u32(buf[2]), 8)), as_u32(buf[1])))
      [] endianness = "Big" ->
            Ok(BitOr32(BitOr32(BitOr32(Shl32(as_u32(buf[1]), 24), Shl32(as_u32(buf[2]), 16)),
                               Shl32(as_u32(buf[3]), 8)), as_u32(buf[4])))

read_u32(data, p, endianness) ==
    LET r == read_exact(data, p, 4)
    IN  [res |-> IF r.res.ok THEN combine_u32(r.res.val, endianness) ELSE r.res,
         pos |-> r.pos]

(***************************************************************************)
(* read_elf_header.                                                        *)
(***************************************************************************)
\* let mut h = ElfHeader{ ... }
InitHeader ==
    [class |-> <<"NoClass">>, endianness |-> "Unknown",
     ident_version |-> <<"Invalid">>, filetype |-> <<"Unknown">>,
     machine |-> <<"NoMachine">>, version |-> <<"Invalid">>,
     entry |-> <<0, 0>>, phoff |-> <<0, 0>>, e_shoff |-> <<0, 0>>,
     e_flags |-> <<0, 0>>, e_ehsize |-> 0,
     e_phentsize |-> 0, e_phnum |-> 0, e_shentsize |-> 0, e_shnum |-> 0,
     e_shstrndx |-> 0]

\* let mut id = [0; 16]
InitId == [i \in 1..IdentSize |-> 0]

\* 0x7F 'E' 'L' 'F'
Magic == <<127, 69, 76, 70>>

Running == [kind |-> "Running", err |-> "none", header |-> <<>>]
Panicked == [kind |-> "Panic", err |-> "none", header |-> <<>>]
Returned(e) == [kind |-> "Err", err |-> e, header |-> <<>>]

\* The order in which read_elf_header assigns the fields of h.
FieldOrder == <<"class", "endianness", "ident_version", "filetype", "machine",
                "version", "entry", "phoff">>

Idle == /\ raw = 0
        /\ fn = "none"
        /\ out = Err("none")

unitVars == <<raw, fn, out>>

\* try!: an Err leaves the function at once, with that error.
TryFail(e, field) ==
    /\ result' = Returned(e)
    /\ failedAt' = field
    /\ pc' = "done"
    /\ UNCHANGED <<h, decoded>>

\* try!: an Ok value is assigned to the field of h and the next statement runs.
TryOk(v, field, next) ==
    /\ h' = [h EXCEPT ![field] = v]
    /\ decoded' = Append(decoded, field)
    /\ pc' = next
    /\ UNCHANGED <<result, failedAt>>

Try(r, field, next) == IF r.ok THEN TryOk(r.val, field, next) ELSE TryFail(r.err, field)

\* File::open(filename) and f.unwrap()
Open ==
    /\ pc = "open"
    /\ IF exists
       THEN pc' = "read_ident" /\ UNCHANGED result
       ELSE pc' = "done" /\ result' = Panicked
    /\ UNCHANGED <<exists, stream, pos, id, h, elfreader, decoded, failedAt, unitVars>>

\* try!(reader.read(&mut id))
ReadIdent ==
    /\ pc = "read_ident"
    /\ LET r == read(stream, pos, id)
       IN  /\ id' = r.buf
           /\ pos' = r.pos
    /\ pc' = "magic"
    /\ UNCHANGED <<exists, stream, h, elfreader, result, decoded, failedAt, unitVars>>

\* the four assert_eq! on id[0..3]
CheckMagic ==
    /\ pc = "magic"
    /\ IF SubSeq(id, 1, 4) = Magic
       THEN pc' = "class" /\ UNCHANGED result
       ELSE pc' = "done" /\ result' = Panicked
    /\ UNCHANGED <<exists, stream, pos, id, h, elfreader, decoded, failedAt, unitVars>>

\* A slip: the error of get_elf_class dropped, the parse going on.
DecodeClassMutant ==
    /\ pc = "class"
    /\ LET r == get_elf_class(id[5])
       IN  IF r.ok THEN TryOk(r.val, "class", "endianness")
           ELSE pc' = "endianness" /\ UNCHANGED <<h, decoded, result, failedAt>>
    /\ UNCHANGED <<exists, stream, pos, id, elfreader, unitVars>>
\* h.class = try!(get_elf_class(id[4] as u8))
DecodeClass ==
    /\ pc = "class"
    /\ Try(get_elf_class(id[5]), "class", "endianness")
    /\ UNCHANGED <<exists, stream, pos, id, elfreader, unitVars>>

\* h.endianness = try!(get_elf_endianness(id[5] as u8))
DecodeEndianness ==
    /\ pc = "endianness"
    /\ Try(get_elf_endianness(id[6]), "endianness", "ident_version")
    /\ UNCHANGED <<exists, stream, pos, id, elfreader, unitVars>>

\* h.ident_version = try!(get_elf_ident_version(id[6] as u8))
DecodeIdentVersion ==
    /\ pc = "ident_version"
    /\ Try(get_elf_ident_version(id[7]), "ident_version", "elfreader")
    /\ UNCHANGED <<exists, stream, pos, id, elfreader, unitVars>>

\* let mut elfreader = ElfReader { inner : &mut reader, endianness : h.endianness}
MakeReader ==
    /\ pc = "elfreader"
    /\ elfreader' = h.endianness
    /\ pc' = "filetype"
    /\ UNCHANGED <<exists, stream, pos, id, h, result, decoded, failedAt, unitVars>>

\* h.filetype = try!(elfreader.read_u16().and_then(get_elf_filetype))
ReadFiletype ==
    /\ pc = "filetype"
    /\ LET r == read_u16(stream, pos, elfreader)
       IN  /\ pos' = r.pos
           /\ Try(and_then(r.res, "get_elf_filetype"), "filetype", "machine")
    /\ UNCHANGED <<exists, stream, id, elfreader, unitVars>>

\* h.machine = try!(elfreader.read_u16().and_then(get_elf_machine))
ReadMachine ==
    /\ pc = "machine"
    /\ LET r == read_u16(stream, pos, elfreader)
       IN  /\ pos' = r.pos
           /\ Try(and_then(r.res, "get_elf_machine"), "machine", "version")
    /\ UNCHANGED <<exists, stream, id, elfreader, unitVars>>

\* h.version = try!(elfreader.read_u32().and_then(get_elf_version))
ReadVersion ==
    /\ pc = "version"
    /\ LET r == read_u32(stream, pos, elfreader)
       IN  /\ pos' = r.pos
           /\ Try(and_then(r.res, "get_elf_version"), "version", "entry")
    /\ UNCHANGED <<exists, stream, id, elfreader, unitVars>>

\* h.entry = try!(elfreader.read_u32())
ReadEntry ==
    /\ pc = "entry"
    /\ LET r == read_u32(stream, pos, elfreader)
       IN  /\ pos' = r.pos
           /\ Try(r.res, "entry", "phoff")
    /\ UNCHANGED <<exists, stream, id, elfreader, unitVars>>

\* A slip: phoff read as a u16.
ReadPhoffMutant ==
    /\ pc = "phoff"
    /\ LET r == read_u16(stream, pos, elfreader)
       IN  /\ pos' = r.pos
           /\ Try(r.res, "phoff", "return")
    /\ UNCHANGED <<exists, stream, id, elfreader, unitVars>>
\* h.phoff = try!(elfreader.read_u32())
ReadPhoff ==
    /\ pc = "phoff"
    /\ LET r == read_u32(stream, pos, elfreader)
       IN  /\ pos' = r.pos
           /\ Try(r.res, "phoff", "return")
    /\ UNCHANGED <<exists, stream, id, elfreader, unitVars>>

\* Ok(h)
Return ==
    /\ pc = "return"
    /\ result' = [kind |-> "Ok", err |-> "none", header |-> <<h>>]
    /\ pc' = "done"
    /\ UNCHANGED <<exists, stream, pos, id, h, elfreader, decoded, failedAt, unitVars>>

(***************************************************************************)
(* The files of the model: every prefix, up to MaxLen bytes, of a header   *)
(* put together from a few choices per field.                              *)
(***************************************************************************)
Prefixes(S, lo, hi) == {SubSeq(s, 1, IF n <= Len(s) THEN n ELSE Len(s)) : s \in S, n \in lo..hi}
Extend(S, C) == {s \o c : s \in S, c \in C}

BadMagicChoices == {<<0, 69, 76, 70>>, <<127, 69, 76, 71>>}
TagChoices == {<<c, e, v>> : c \in 0..3, e \in 0..3, v \in 0..2}
PadChoices == {<<0, 0, 0, 0, 0, 0, 0, 0, 0>>}
FiletypeChoices == {<<2, 0>>, <<0, 2>>, <<0, 255>>, <<255, 0>>}
MachineChoices == {<<83, 0>>, <<0, 3>>}
VersionChoices == {<<1, 0, 0, 0>>, <<0, 0, 0, 1>>, <<2, 0, 0, 0>>}
EntryChoices == {<<0, 0, 0, 0>>, <<1, 2, 3, 255>>}
PhoffChoices == {<<52, 0, 128, 1>>}
Trailer == [i \in 1..(MaxLen - 32) |-> 170]

Idents == Extend(Extend({Magic}, TagChoices), PadChoices)
UpToFiletype == Extend(Idents, FiletypeChoices)
UpToMachine == Extend(UpToFiletype, MachineChoices)
UpToVersion == Extend(UpToMachine, VersionChoices)
UpToEntry == Extend(UpToVersion, EntryChoices)
UpToPhoff == Extend(UpToEntry, PhoffChoices)

\* Files that start with the magic.
MagicStreams ==
    Prefixes(Idents, 0, 16) \cup Prefixes(UpToFiletype, 17, 18)
    \cup Prefixes(UpToMachine, 19, 20) \cup Prefixes(UpToVersion, 21, 24)
    \cup Prefixes(UpToEntry, 25, 28)
    \cup Prefixes(Extend(UpToPhoff, {Trailer}), 29, MaxLen)

\* Files that do not: a wrong first or fourth byte, then valid or invalid
\* tags and a header body.
BadMagicStreams ==
    Prefixes(Extend(BadMagicChoices,
                    {<<1, 1, 1>> \o b : b \in PadChoices} \cup
                    {<<3, 0, 2>> \o b : b \in PadChoices} \cup
                    {<<1, 1, 1>> \o b \o <<2, 0, 83, 0, 1, 0, 0, 0, 0, 0, 0, 0, 52, 0, 0, 0>>
                         \o Trailer : b \in PadChoices}),
             4, MaxLen)

Streams == MagicStreams \cup BadMagicStreams

Init ==
    /\ exists \in BOOLEAN
    /\ stream \in (IF exists THEN Streams ELSE {<<>>})
    /\ pos = 0
    /\ id = InitId
    /\ h = InitHeader
    /\ elfreader = "Unbound"
    /\ pc = "open"
    /\ result = Running
    /\ decoded = <<>>
    /\ failedAt = "none"
    /\ Idle

Next ==
    \/ Open
    \/ ReadIdent
    \/ CheckMagic
    \/ DecodeClass
    \/ DecodeEndianness
    \/ DecodeIdentVersion
    \/ MakeReader
    \/ ReadFiletype
    \/ ReadMachine
    \/ ReadVersion
    \/ ReadEntry
    \/ ReadPhoff
    \/ Return

Spec == Init /\ [][Next]_vars

(***************************************************************************)
(* SpecDecode: one field decoder applied to one raw value.  Every 16-bit   *)
(* value is an input; the decoders of a byte get the values of a byte.     *)
(***************************************************************************)
NoCall ==
    /\ exists = FALSE
    /\ pos = 0
    /\ id = InitId
    /\ h = InitHeader
    /\ pc = "unit"
    /\ result = Running
    /\ decoded = <<>>
    /\ failedAt = "none"
    /\ fn = "none"
    /\ out = Err("none")

InitDecode ==
    /\ NoCall
    /\ stream = <<>>
    /\ elfreader = "Unbound"
    /\ raw \in 0..U16Max

Call(name, r) ==
    /\ pc = "unit"
    /\ fn = "none"
    /\ fn' = name
    /\ out' = r
    /\ UNCHANGED <<exists, stream, id, h, elfreader, pc, result, decoded, failedAt, raw>>

CallClass == raw <= U8Max /\ Call("get_elf_class", get_elf_class(raw)) /\ UNCHANGED pos
CallEndianness ==
    raw <= U8Max /\ Call("get_elf_endianness", get_elf_endianness(raw)) /\ UNCHANGED pos
CallIdentVersion ==
    raw <= U8Max /\ Call("get_elf_ident_version", get_elf_ident_version(raw)) /\ UNCHANGED pos
CallFiletype == Call("get_elf_filetype", get_elf_filetype(raw)) /\ UNCHANGED pos
CallMachine == Call("get_elf_machine", get_elf_machine(raw)) /\ UNCHANGED pos
CallVersion == Call("get_elf_version", get_elf_version(as_u32(raw))) /\ UNCHANGED pos

NextDecode ==
    \/ CallClass
    \/ CallEndianness
    \/ CallIdentVersion
    \/ CallFiletype
    \/ CallMachine
    \/ CallVersion

SpecDecode == InitDecode /\ [][NextDecode]_vars

(***************************************************************************)
(* SpecScalar: one read of an ElfReader over a source of at most 4 bytes.  *)
(***************************************************************************)
ScalarBytes == (0..MaxSmallByte) \cup {127, 128, 255}
ScalarStreams == UNION {[1..n -> ScalarBytes] : n \in 0..4}

InitScalar ==
    /\ NoCall
    /\ stream \in ScalarStreams
    /\ elfreader \in {"Unknown", "Little", "Big"}
    /\ raw = 0

CallRead(name, r) == Call(name, r.res) /\ pos' = r.pos

CallReadU8 == CallRead("read_u8", read_u8(stream, pos, elfreader))
CallReadU16 == CallRead("read_u16", read_u16(stream, pos, elfreader))
CallReadU32 == CallRead("read_u32", read_u32(stream, pos, elfreader))

NextScalar ==
    \/ CallReadU8
    \/ CallReadU16
    \/ CallReadU32

SpecScalar == InitScalar /\ [][NextScalar]_vars

(***************************************************************************)
(* What the format's tables say, written without the code's operators.     *)
(***************************************************************************)
ExpClass(b) == IF b = 0 THEN <<"NoClass">> ELSE IF b = 1 THEN <<"Bit32">> ELSE <<"Bit64">>
ExpOrder(b) == IF b = 1 THEN "Little" ELSE "Big"
ExpVersion(v) == IF v = 0 THEN <<"Invalid">> ELSE <<"Current">>
ExpFiletypeNames == <<"Unknown", "Relocatable", "Executable", "SharedObject", "Core">>
ExpFiletypeValid(v) == v \in 0..4 \/ v \in 65280..65535
ExpFiletype(v) == IF v \in 0..4 THEN <<ExpFiletypeNames[v + 1]>> ELSE <<"ProcessorSpecific", v>>
ExpMachineNames == <<"NoMachine", "M32", "SPARC", "I386", "M68K", "M88K", "I860", "MIPS">>
ExpMachine(v) == IF v \in 0..7 THEN <<ExpMachineNames[v + 1]>> ELSE <<"Processor", v>>

\* The u16 at bytes off+1, off+2 of s and the u32 (as <<high, low>> halves) at
\* bytes off+1 .. off+4, in byte order o.
Word16(s, off, o) ==
    IF o = "Little" THEN s[off + 1] + 256 * s[off + 2] ELSE 256 * s[off + 1] + s[off + 2]
Word32(s, off, o) ==
    IF o = "Little"
    THEN <<s[off + 3] + 256 * s[off + 4], s[off + 1] + 256 * s[off + 2]>>
    ELSE <<256 * s[off + 1] + s[off + 2], 256 * s[off + 3] + s[off + 4]>>

Reverse(s) == [i \in 1..Len(s) |-> s[Len(s) + 1 - i]]

InvalidFieldErrs == {ErrClass, ErrEndianness, ErrVersion, ErrFileType}

\* The offset just after a field; the tags live in the identification block,
\* which is read as one block of 16 bytes.
FieldEnd(f) ==
    CASE f \in {"class", "endianness", "ident_version"} -> 16
      [] f = "filetype" -> 18
      [] f = "machine" -> 20
      [] f = "version" -> 24
      [] f = "entry" -> 28
      [] f = "phoff" -> 32

HasMagic == Len(stream) >= 4 /\ SubSeq(stream, 1, 4) = Magic
ValidTags ==
    /\ Len(stream) >= 16
    /\ stream[5] \in 0..2
    /\ stream[6] \in {1, 2}
    /\ stream[7] \in {0, 1}
Done == pc = "done" /\ exists

(***************************************************************************)
(* C1: a file of at least 32 bytes with the magic, valid class, order      *)
(* (Little or Big) and identification version tags, and valid object type  *)
(* and version codes parses to Ok with a header whose eight fields are the *)
(* table decoding of bytes 4, 5, 6 and of the words at 16, 18, 20, 24, 28. *)
(***************************************************************************)
C1_Valid ==
    /\ Len(stream) >= 32
    /\ HasMagic
    /\ ValidTags
    /\ ExpFiletypeValid(Word16(stream, 16, ExpOrder(stream[6])))
    /\ Word32(stream, 20, ExpOrder(stream[6])) \in {<<0, 0>>, <<0, 1>>}

C1_ValidHeaderParses ==
    (Done /\ C1_Valid) =>
        /\ result.kind = "Ok"
        /\ Len(result.header) = 1
        /\ LET hd == result.header[1]
               o == ExpOrder(stream[6])
           IN  /\ hd.class = ExpClass(stream[5])
               /\ hd.endianness = o
               /\ hd.ident_version = ExpVersion(stream[7])
               /\ hd.filetype = ExpFiletype(Word16(stream, 16, o))
               /\ hd.machine = ExpMachine(Word16(stream, 18, o))
               /\ hd.version = ExpVersion(Word32(stream, 20, o)[2])
               /\ hd.entry = Word32(stream, 24, o)
               /\ hd.phoff = Word32(stream, 28, o)

\* The end-to-end scenario: a 32-bit little-endian executable for machine 83.
C1_Witness ==
    /\ Done /\ C1_Valid
    /\ SubSeq(stream, 5, 7) = <<1, 1, 1>>
    /\ SubSeq(stream, 17, 28) = <<2, 0, 83, 0, 1, 0, 0, 0, 0, 0, 0, 0>>
    /\ result.kind = "Ok"
    /\ result.header[1].class = <<"Bit32">>
    /\ result.header[1].endianness = "Little"
    /\ result.header[1].ident_version = <<"Current">>
    /\ result.header[1].filetype = <<"Executable">>
    /\ result.header[1].machine = <<"Processor", 83>>
    /\ result.header[1].version = <<"Current">>
    /\ result.header[1].entry = <<0, 0>>

(***************************************************************************)
(* C2: a file of fewer than 16 bytes fails with Truncated (UnexpectedEof), *)
(* never with another outcome.                                             *)
(***************************************************************************)
C2_ShortIsTruncated ==
    (Done /\ Len(stream) < 16) => (result.kind = "Err" /\ result.err = ErrUnexpectedEof)

(***************************************************************************)
(* C3: a file of at least 16 bytes whose first 4 bytes are not the magic   *)
(* gets an error value back (no abort), and nothing after the              *)
(* identification block is consumed.                                       *)
(***************************************************************************)
C3_BadMagicReturned ==
    (Done /\ Len(stream) >= 16 /\ ~HasMagic) => (result.kind = "Err" /\ pos <= 16)

(***************************************************************************)
(* C4: byte order Unknown (tag 0) is rejected when the tag is decoded: it  *)
(* is never assigned to h.endianness with the parse going on, the reader   *)
(* is only ever bound to Little or Big, the unknown-endianness error never *)
(* reaches the caller, and nothing after the identification block is       *)
(* consumed for such a file.                                               *)
(***************************************************************************)
C4_UnknownOrderRejected ==
    /\ ~(Len(stream) >= 16 /\ h.endianness = "Unknown" /\ Len(decoded) >= 2)
    /\ elfreader \in {"Unbound", "Little", "Big"}
    /\ ~(result.kind = "Err" /\ result.err = ErrUnknownEndianness)
    /\ (Done /\ HasMagic /\ Len(stream) >= 16 /\ stream[5] \in 0..2 /\ stream[6] = 0) =>
            (result.kind = "Err" /\ failedAt = "endianness" /\ pos <= 16)

IsPrefix(s, t) == Len(s) <= Len(t) /\ s = SubSeq(t, 1, Len(s))

C6_FirstErrorWins ==
    /\ IsPrefix(decoded, FieldOrder)
    /\ \A i \in (Len(decoded) + 1)..Len(FieldOrder) : h[FieldOrder[i]] = InitHeader[FieldOrder[i]]
    /\ result.kind = "Ok" => (decoded = FieldOrder /\ result.header = <<h>>)
    /\ result.kind # "Ok" => result.header = <<>>
    /\ result.kind = "Err" =>
            /\ Len(decoded) < Len(FieldOrder)
            /\ failedAt = FieldOrder[Len(decoded) + 1]
    /\ result.kind # "Running" => (pc = "done" /\ ~ENABLED Next)

C6_Witness ==
    /\ Done /\ result.kind = "Err" /\ result.err = ErrFileType
    /\ decoded = <<"class", "endianness", "ident_version">>
    /\ Len(stream) >= 32 /\ pos = 18

(***************************************************************************)
(* C7: with a valid identification block (order Little or Big) and 16 to   *)
(* 31 bytes in all, no header comes back: the parse ends in UnexpectedEof  *)
(* at the first field whose bytes are not all there, or in an invalid      *)
(* field error at a field that is wholly there.                            *)
(***************************************************************************)
FirstUnavailable(n) ==
    CHOOSE f \in {"filetype", "machine", "version", "entry", "phoff"} :
        /\ FieldEnd(f) > n
        /\ \A g \in {"filetype", "machine", "version", "entry", "phoff"} :
              FieldEnd(g) > n => FieldEnd(g) >= FieldEnd(f)

C7_ShortBodyIsTruncated ==
    (Done /\ HasMagic /\ ValidTags /\ Len(stream) \in 16..31) =>
        /\ result.kind = "Err"
        /\ result.header = <<>>
        /\ \/ result.err = ErrUnexpectedEof /\ failedAt = FirstUnavailable(Len(stream))
           \/ result.err \in InvalidFieldErrs /\ FieldEnd(failedAt) <= Len(stream)

C7_Witness ==
    /\ Done /\ HasMagic /\ ValidTags /\ Len(stream) = 22
    /\ result.kind = "Err" /\ result.err = ErrUnexpectedEof /\ failedAt = "version"
    /\ decoded = <<"class", "endianness", "ident_version", "filetype", "machine">>

(***************************************************************************)
(* C8: get_elf_filetype succeeds exactly on 0..4 and on 0xFF00..0xFFFF,    *)
(* giving the five named types and ProcessorSpecific with the raw value;   *)
(* every other 16-bit value is an invalid field error.                     *)
(***************************************************************************)
C8_FiletypeDecoding ==
    fn = "get_elf_filetype" =>
        /\ out.ok <=> (raw \in 0..4 \/ raw \in 65280..65535)
        /\ out.ok => out.val = ExpFiletype(raw)
        /\ ~out.ok => out.err = ErrFileType

C8_Witness ==
    /\ fn = "get_elf_filetype" /\ raw = 65535
    /\ out.ok /\ out.val = <<"ProcessorSpecific", 65535>>

(***************************************************************************)
(* C9: get_elf_machine never fails: 0..7 give the eight named machines and *)
(* every other 16-bit value v gives Processor(v), v unchanged.             *)
(***************************************************************************)
C9_MachineDecodingTotal ==
    fn = "get_elf_machine" => (out.ok /\ out.val = ExpMachine(raw))

C9_Witness ==
    /\ fn = "get_elf_machine" /\ raw = 339
    /\ out.ok /\ out.val = <<"Processor", 339>>

(***************************************************************************)
(* C10: read_u16 and read_u32 take the first byte as least significant     *)
(* under Little and as most significant under Big; the Little decoding is  *)
(* the Big decoding of the reversed bytes; the two decodings of the same   *)
(* bytes are equal only for a byte palindrome; read_u8 gives the byte      *)
(* under any order.                                                        *)
(***************************************************************************)
C10_ByteOrder ==
    /\ (fn = "read_u8" /\ Len(stream) >= 1) => (out.ok /\ out.val = stream[1])
    /\ (fn = "read_u16" /\ Len(stream) >= 2 /\ elfreader # "Unknown") =>
            LET b == SubSeq(stream, 1, 2)
                le == read_u16(b, 0, "Little").res
                be == read_u16(b, 0, "Big").res
            IN  /\ out.ok /\ out.val = Word16(stream, 0, elfreader)
                /\ le.ok /\ be.ok
                /\ le.val = read_u16(Reverse(b), 0, "Big").res.val
                /\ (le.val = be.val) <=> (b = Reverse(b))
    /\ (fn = "read_u32" /\ Len(stream) >= 4 /\ elfreader # "Unknown") =>
            LET b == SubSeq(stream, 1, 4)
                le == read_u32(b, 0, "Little").res
                be == read_u32(b, 0, "Big").res
            IN  /\ out.ok /\ out.val = Word32(stream, 0, elfreader)
                /\ le.ok /\ be.ok
                /\ le.val = read_u32(Reverse(b), 0, "Big").res.val
                /\ (le.val = be.val) <=> (b = Reverse(b))

C10_Witness ==
    /\ fn = "read_u32" /\ elfreader = "Little" /\ stream = <<1, 2, 127, 255>>
    /\ out.ok /\ out.val = <<65407, 513>>

====
